---- MODULE Spec2Model ----
(***************************************************************************)
(* The capture scheduler of the feedline readout server:                  *)
(* FeedlineReadout.main (src/mkidgen3/server/feedline_server.py) with the  *)
(* CaptureRequest entity (src/mkidgen3/objects.py), the configuration      *)
(* compatibility rule (FLMetaConfigMixin.__eq__) and the ConfigManager.    *)
(*                                                                         *)
(* One step of the model is one whole iteration of the `while True` loop   *)
(* of main (reap, intake of one command, admission), or one step of a      *)
(* capture worker thread, or the return of the blocking join of abort_all. *)
(* The control thread is the only writer of the queues, of the tap map and *)
(* of the ConfigManager, so an iteration is atomic with respect to them.   *)
(***************************************************************************)
EXTENDS Integers, Sequences, FiniteSets, TLC

\* The number of capture requests a behaviour submits.
MaxReq == 2

(***************************************************************************)
(* Taps                                                                    *)
(***************************************************************************)
\* The keys of FeedlineReadout._tap_threads.
TapSlots == {"photon", "stamp", "engineering"}

\* The tap names a client puts in a CaptureRequest (CaptureSinkFactory).
RequestTaps == {"adc", "iq", "photon", "postage"}

\* CaptureRequest.type
Type(tap) == IF tap \in {"adc", "iq", "phase"} THEN "engineering" ELSE tap

(***************************************************************************)
(* Configurations.  A field is None (0), a full sub-configuration whose    *)
(* hash is v (v > 0), or the bare integer hash v of a sub-configuration    *)
(* sent by reference (-v).                                                 *)
(***************************************************************************)
Fields == {"if_setup", "dac_setup"}

None == 0

Cfg(i, d) == [if_setup |-> i, dac_setup |-> d]

\* The configurations a request may carry.
RequestConfigs == {Cfg(0, 1), Cfg(0, 2), Cfg(0, -2), Cfg(1, 0)}

\* The sample counts a request may carry.
SampleCounts == {1}

\* The (tap, configuration) pairs of the requests a client submits: every
\* configuration on the photon tap, and one configuration on every tap.
RequestKinds == ({"photon"} \X RequestConfigs) \cup (RequestTaps \X {Cfg(0, 1)})

\* hash(v) of a field value: an int is its own hash, a sub-configuration
\* hashes to the hash of its settings.
HashOf(v) == IF v < 0 THEN -v ELSE v

\* FLMetaConfigMixin.__eq__: the fields that are None on either side match,
\* the others are compared by hash.
Compatible(a, b) ==
    \A k \in Fields : a[k] = None \/ b[k] = None \/ HashOf(a[k]) = HashOf(b[k])

\* FLMetaConfigMixin.__hash__: the sorted (field, hash of field) pairs.
ConfigHash(c) == [k \in Fields |-> HashOf(c[k])]

\* CaptureRequest.__hash__ / CaptureRequest.id
Id(r) == <<ConfigHash(r.cfg), r.tap, r.points>>

\* An id no request has.
UnknownId == <<ConfigHash(Cfg(0, 0)), "none", 0>>

(***************************************************************************)
(* ConfigManager                                                           *)
(***************************************************************************)
NoConfig == [k \in Fields |-> None]

\* merge(a, b): a concrete field wins over an unset one.
Merge(a, b) == [k \in Fields |-> IF a[k] # None THEN a[k] ELSE b[k]]

RECURSIVE MergeAll(_)
\* The effective configuration of a set of configurations, from scratch.
MergeAll(S) ==
    IF S = {} THEN NoConfig
    ELSE LET c == CHOOSE x \in S : TRUE IN Merge(c, MergeAll(S \ {c}))

\* ConfigManager.required()
Required(s) == s.effective

\* ConfigManager.learn(config): every sub-configuration sent in full is known
\* from now on.
Learn(s, cfg) ==
    [s EXCEPT !.learned = @ \cup {<<k, cfg[k]>> : k \in {f \in Fields : cfg[f] > 0}}]

\* ConfigManager.unlearned_hashes(config): the hash references never taught.
UnlearnedHashes(s, cfg) ==
    {k \in Fields : cfg[k] < 0 /\ <<k, -cfg[k]>> \notin s.learned}

\* ConfigManager.add(id, config): record id -> config and fold config into the
\* effective configuration.
CMAdd(s, id, cfg) ==
    LET rc == ConfigHash(cfg)
    IN [s EXCEPT !.cm = [x \in (DOMAIN s.cm) \cup {id} |->
                            IF x = id THEN rc ELSE s.cm[x]],
                 !.effective = Merge(s.effective, rc),
                 !.bad_merge = @ \/ ~Compatible(s.effective, rc)]

\* ConfigManager.pop(id): remove id and recompute the effective configuration
\* over the ids that remain.
CMPop(s, id) ==
    LET rest == (DOMAIN s.cm) \ {id}
    IN [s EXCEPT !.cm = [x \in rest |-> s.cm[x]],
                 !.effective = MergeAll({s.cm[x] : x \in rest})]

\* The compatibility test answering no to everything.
ConfigCompatibleNever(s, cfg) == FALSE

\* The compatibility test answering yes to everything.
ConfigCompatibleAlways(s, cfg) == TRUE

\* FeedlineHardware.config_compatible_with
ConfigCompatibleWith(s, cfg) == Compatible(Required(s), cfg)

\* The release left out.
DerequireConfigNothing(s, id) == s

\* FeedlineHardware.derequire_config: a KeyError of pop is swallowed.
DerequireConfig(s, id) == IF id \in DOMAIN s.cm THEN CMPop(s, id) ELSE s

\* FeedlineHardware.apply_config raises by itself when the IF board is to be
\* configured and there is no DAC setup: fl_setup.dac_setup.settings_dict().
ApplyRaises(fl) == fl.if_setup # None /\ fl.dac_setup = None

(***************************************************************************)
(* State                                                                   *)
(***************************************************************************)
VARIABLES
    requests,     \* the CaptureRequests received so far, in arrival order
    threads,      \* per request: "none", "alive", "dead" (ended, not reaped), "reaped"
    pipes,        \* per request: an 'abort' is waiting on the worker's pipe
    to_check,     \* FeedlineReadout._to_check (the fresh queue)
    checked,      \* FeedlineReadout._checked (the stale queue)
    tap_threads,  \* FeedlineReadout._tap_threads: slot -> request (0 is None)
    cm,           \* ConfigManager: id -> required configuration
    effective,    \* ConfigManager: the effective configuration
    learned,      \* ConfigManager: the sub-configurations taught in full
    loop,         \* "running", "joining", "stopped" (main returned), "raised"
    cause,        \* why main left the loop, or which join it is blocked in
    cmd,          \* main's local cmd of the last iteration
    cr,           \* main's local cr of the last iteration (0 is None)
    bad_merge,    \* history: add() was called on an incompatible configuration
    worker,       \* one plram_cap worker, chunk by chunk (see SpecWorker)
    capreq,       \* one CaptureRequest object, call by call (see SpecRequest)
    photon,       \* one photon_cap worker and its sender (see SpecPhoton)
    compare,      \* two meta configurations and what == gave (see SpecCompare)
    command       \* the command server of __main__ (see SpecCommand)

vars == <<requests, threads, pipes, to_check, checked, tap_threads, cm,
          effective, learned, loop, cause, cmd, cr, bad_merge, worker, capreq,
          photon, compare, command>>

\* The requests a behaviour can hold.
ReqIds == 1 .. (MaxReq + 2)

\* The state as one record, for the operators that model the methods.
\* queued_raises is an input of the iteration: set_status('queued', ...)
\* raises zmq.ZMQError (see SpecTransport).
St == [requests |-> requests, threads |-> threads, pipes |-> pipes,
       to_check |-> to_check, checked |-> checked, tap_threads |-> tap_threads,
       cm |-> cm, effective |-> effective, learned |-> learned,
       loop |-> loop, cause |-> cause, cmd |-> cmd, cr |-> cr,
       bad_merge |-> bad_merge,
       queued_raises |-> FALSE]

Assign(s) ==
    /\ requests' = s.requests
    /\ threads' = s.threads
    /\ pipes' = s.pipes
    /\ to_check' = s.to_check
    /\ checked' = s.checked
    /\ tap_threads' = s.tap_threads
    /\ cm' = s.cm
    /\ effective' = s.effective
    /\ learned' = s.learned
    /\ loop' = s.loop
    /\ cause' = s.cause
    /\ cmd' = s.cmd
    /\ cr' = s.cr
    /\ bad_merge' = s.bad_merge

\* Main moves to s; nothing else does.
Becomes(s) == Assign(s) /\ UNCHANGED <<worker, capreq, photon, compare, command>>

\* No chunk-level worker is followed.
NoWorker ==
    [pc |-> "none", size_bytes |-> 0, chunks |-> <<>>, i |-> 0, abort |-> FALSE,
     out |-> <<>>, closed |-> FALSE, sent_at |-> -1, sent_pc |-> "none",
     failmsg |-> "", pulls |-> 0, held |-> 0]

\* CaptureRequest.__init__: no socket, no _established attribute, nothing
\* published; trace, opened, raised, call, calls and terminated are history.
NewCaptureRequest(tap, n, cfg, server) ==
    [tap |-> tap, points |-> n, cfg |-> cfg, server |-> server,
     established |-> "unset", status_socket |-> "none", data_socket |-> "none",
     status_via |-> "none", last_status |-> "none", trace |-> <<>>, opened |-> 0,
     raised |-> FALSE, call |-> "none", calls |-> 0, terminated |-> FALSE]

\* No request object is followed.
NoCaptureRequest == NewCaptureRequest("none", 0, NoConfig, "none")

\* No photon worker is followed.
NoPhoton == [pc |-> "none", sender |-> "none", stop |-> FALSE, abort |-> FALSE,
             photons |-> 0]

\* No comparison is followed.
NoCompare == [pc |-> "none"]

\* No command server is followed.
NoCommand == [pc |-> "none"]

\* FeedlineReadout.__init__, FeedlineHardware.__init__
InitMain ==
    /\ requests = <<>>
    /\ threads = [r \in ReqIds |-> "none"]
    /\ pipes = [r \in ReqIds |-> FALSE]
    /\ to_check = <<>>
    /\ checked = <<>>
    /\ tap_threads = [k \in TapSlots |-> 0]
    /\ cm = [x \in {} |-> NoConfig]
    /\ effective = NoConfig
    /\ learned = {}
    /\ loop = "running"
    /\ cause = "none"
    /\ cmd = ""
    /\ cr = 0
    /\ bad_merge = FALSE

Init ==
    /\ InitMain
    /\ worker = NoWorker
    /\ capreq = NoCaptureRequest
    /\ photon = NoPhoton
    /\ compare = NoCompare
    /\ command = NoCommand

(***************************************************************************)
(* CaptureRequest                                                          *)
(***************************************************************************)
\* CaptureRequest.__init__
NewRequest(tap, n, cfg) ==
    [tap |-> tap, points |-> n, cfg |-> cfg, status |-> "created",
     reason |-> "none", rejected |-> FALSE, observed |-> FALSE]

\* CaptureRequest.set_status
SetStatus(s, r, status) == [s EXCEPT !.requests[r].status = status]

\* set_status('queued', message): the message is kept as the reason.
SetQueued(s, r, why) ==
    [s EXCEPT !.requests[r].status = "queued", !.requests[r].reason = why]

\* CaptureRequest.abort
AbortRequest(s, r) == SetStatus(s, r, "aborted")

RECURSIVE AbortEach(_, _)
\* for cr in list: cr.abort(reason)
AbortEach(s, list) ==
    IF list = <<>> THEN s ELSE AbortEach(AbortRequest(s, Head(list)), Tail(list))

\* An exception leaves main.
Raise(s, what) == [s EXCEPT !.loop = "raised", !.cause = what]

(***************************************************************************)
(* TapThread and the methods of FeedlineReadout                            *)
(***************************************************************************)
\* The abort that ends the request from the control thread as well.
TapThreadAbortEndsRequest(s, r) ==
    [s EXCEPT !.pipes[r] = TRUE, !.requests[r].status = "aborted"]

\* TapThread.abort: pipe.send('abort')
TapThreadAbort(s, r) == [s EXCEPT !.pipes[r] = TRUE]

\* The slots that hold a TapThread.
Occupied(s) == {k \in TapSlots : s.tap_threads[k] # 0}

\* running_by_id = {tt.request.id: tt for tt in _tap_threads.values() if tt}
RunningById(s) == {s.tap_threads[k] : k \in Occupied(s)}

RECURSIVE DerequireEach(_, _)
\* for k in complete: derequire_config(_tap_threads[k].request.id)
DerequireEach(s, rs) ==
    IF rs = {} THEN s
    ELSE LET r == CHOOSE x \in rs : TRUE
         IN DerequireEach(DerequireConfig(s, Id(s.requests[r])), rs \ {r})

\* The reap that leaves the stale queue where it is.
CleanupCompletedKeepsStale(s) ==
    LET complete == {k \in Occupied(s) : s.threads[s.tap_threads[k]] = "dead"}
        done == {s.tap_threads[k] : k \in complete}
        s2 == DerequireEach(s, done)
    IN [s2 EXCEPT !.tap_threads = [k \in TapSlots |->
                                      IF k \in complete THEN 0 ELSE s.tap_threads[k]],
                  !.threads = [r \in ReqIds |->
                                      IF r \in done THEN "reaped" ELSE s.threads[r]]]

\* FeedlineReadout._cleanup_completed
CleanupCompleted(s) ==
    LET complete == {k \in Occupied(s) : s.threads[s.tap_threads[k]] = "dead"}
        done == {s.tap_threads[k] : k \in complete}
        s1 == IF complete # {}
              THEN [s EXCEPT !.to_check = s.to_check \o s.checked, !.checked = <<>>]
              ELSE s
        s2 == DerequireEach(s1, done)
    IN [s2 EXCEPT !.tap_threads = [k \in TapSlots |->
                                      IF k \in complete THEN 0 ELSE s.tap_threads[k]],
                  !.threads = [r \in ReqIds |->
                                      IF r \in done THEN "reaped" ELSE s.threads[r]]]

RECURSIVE AbortThreads(_, _)
\* for tt in _tap_threads.values(): if tt is not None: tt.abort()
AbortThreads(s, rs) ==
    IF rs = {} THEN s
    ELSE LET r == CHOOSE x \in rs : TRUE
         IN AbortThreads(TapThreadAbort(s, r), rs \ {r})

\* abort_all that forgets the running workers.
AbortAllQueuedOnly(s) ==
    [AbortEach(s, s.checked \o s.to_check) EXCEPT !.checked = <<>>, !.to_check = <<>>]

\* FeedlineReadout.abort_all, up to the joins.
AbortAll(s) ==
    LET s1 == AbortEach(s, s.checked \o s.to_check)
        s2 == [s1 EXCEPT !.checked = <<>>, !.to_check = <<>>]
    IN AbortThreads(s2, RunningById(s2))

\* list.pop(i), i counted from 1.
PopAt(list, i) == SubSeq(list, 1, i - 1) \o SubSeq(list, i + 1, Len(list))

RECURSIVE FilterPop(_, _, _, _)
\* for cr in filter(lambda x: x.id == id, list): list.pop(list.index(cr));
\* cr.abort(...).  The filter walks the list it is popped from: position i
\* advances after every element it has looked at.  The result holds the list
\* that is left and the requests that were aborted.
FilterPop(reqs, list, i, id) ==
    IF i > Len(list) THEN [list |-> list, hit |-> {}]
    ELSE IF Id(reqs[list[i]]) = id
         THEN LET rest == FilterPop(reqs, PopAt(list, i), i + 1, id)
              IN [list |-> rest.list, hit |-> rest.hit \cup {list[i]}]
         ELSE FilterPop(reqs, list, i + 1, id)

RECURSIVE AbortSet(_, _)
\* cr.abort('Abort by id') for the requests popped.
AbortSet(s, rs) ==
    IF rs = {} THEN s
    ELSE LET r == CHOOSE x \in rs : TRUE IN AbortSet(AbortRequest(s, r), rs \ {r})

\* The abort that does not look at the id.
AbortByIdAny(s, id) == AbortAll(s)

\* FeedlineReadout.abort_by_id
AbortById(s, id) ==
    LET running == {r \in RunningById(s) : Id(s.requests[r]) = id}
        s1 == AbortThreads(s, running)
        c == FilterPop(s.requests, s.checked, 1, id)
        t == FilterPop(s.requests, s.to_check, 1, id)
        s2 == [s1 EXCEPT !.checked = c.list, !.to_check = t.list]
    IN AbortSet(s2, c.hit \cup t.hit)

(***************************************************************************)
(* FeedlineReadout.main                                                    *)
(***************************************************************************)
\* The top of an iteration: _cleanup_completed(), cr = None, and the command
\* received.
Begin(s, c) == [CleanupCompleted(s) EXCEPT !.cr = 0, !.cmd = c]

\* The failure after which main goes on with its loop.
HardwareFailureCarriesOn(s, rbi) ==
    [AbortEach(s, s.checked \o s.to_check) EXCEPT !.cause = "hardware"]

\* The except branch of apply_config: every queued request is aborted (the
\* loop variable is named cr as well), then an 'abort' is to be sent to every
\* thread of running_by_id through v.pipe[0]; TapThread.pipe is one socket,
\* not a pair, so with a thread running that raises TypeError out of main.
\* Without one, main breaks.
HardwareFailure(s, rbi) ==
    LET q == s.checked \o s.to_check
        s1 == AbortEach(s, q)
        s2 == IF q = <<>> THEN s1 ELSE [s1 EXCEPT !.cr = q[Len(q)]]
    IN IF rbi # {} THEN Raise(s2, "hardware")
       ELSE [s2 EXCEPT !.loop = "stopped", !.cause = "hardware"]

\* The spawn that leaves the request on the stale queue as well.
SpawnAndKeep(s) ==
    LET s1 == SetStatus(s, s.cr, "running")
    IN [s1 EXCEPT !.threads[s.cr] = "alive",
                  !.tap_threads[Type(s.requests[s.cr].tap)] = s.cr,
                  !.checked = Append(s.checked, s.cr)]

\* set_status('running'), the thread is started and recorded against the tap.
Spawn(s) ==
    LET s1 == SetStatus(s, s.cr, "running")
    IN [s1 EXCEPT !.threads[s.cr] = "alive",
                  !.tap_threads[Type(s.requests[s.cr].tap)] = s.cr]

\* The tap-busy test left out.
TapInUseNever(s, t) == FALSE

\* self._tap_threads[t] is not None
TapInUse(s, t) == s.tap_threads[t] # 0

\* set_status('queued', why); self._checked.append(cr); continue.  When
\* set_status raises zmq.ZMQError the append is skipped: the request, popped
\* from _to_check already, is in neither queue.
Requeue(s, why) ==
    IF s.queued_raises THEN s
    ELSE [SetQueued(s, s.cr, why) EXCEPT !.checked = Append(s.checked, s.cr)]

\* main from `assert isinstance(cr, CaptureRequest)` to the end of the
\* iteration, for the request s.cr; fault: the hardware refuses the
\* configuration.
Admission(s, rbi, fault) ==
    LET req == s.requests[s.cr]
        t == Type(req.tap)
    IN IF t \notin TapSlots THEN Raise(s, "KeyError")
       ELSE IF TapInUse(s, t) THEN Requeue(s, "tap in use")
       ELSE IF ~ConfigCompatibleWith(s, req.cfg) THEN Requeue(s, "incompatible")
       ELSE LET s1 == CMAdd(s, Id(req), req.cfg)
            IN IF fault \/ ApplyRaises(s1.effective)
               THEN HardwareFailure(s1, rbi)
               ELSE Spawn(s1)

\* `if not cr: cr = self._to_check.pop(0)`, or continue when there is none.
PickAndAdmit(s, rbi, fault) ==
    IF s.loop # "running" THEN s
    ELSE IF s.cr # 0 THEN Admission(s, rbi, fault)
    ELSE IF s.to_check = <<>> THEN s
    ELSE Admission([s EXCEPT !.to_check = Tail(s.to_check), !.cr = Head(s.to_check)],
                   rbi, fault)

\* The rejected request put on the stale queue as well.
RejectAndKeep(s, d) ==
    [s EXCEPT !.requests[d].status = "aborted", !.requests[d].rejected = TRUE,
              !.checked = Append(s.checked, d)]

\* The branch of a 'capture' whose configuration holds a hash never taught:
\* data.abort({'resp': 'ERROR', 'data': unknown})
RejectUnknown(s, d) ==
    [AbortRequest(s, d) EXCEPT !.requests[d].rejected = TRUE]

\* The else branch: the request is queued, behind the fresh ones if there are
\* any, else on the stale queue.  When set_status('queued', ...) raises
\* zmq.ZMQError the request is logged and dropped.
Enqueue(s, d) ==
    LET s1 == SetQueued(s, d, "Queued")
    IN IF s.queued_raises THEN s
       ELSE IF s.to_check # <<>>
       THEN [s1 EXCEPT !.to_check = Append(s.to_check, d)]
       ELSE [s1 EXCEPT !.checked = Append(s.checked, d)]

\* `elif cmd == 'capture'`, data being requests[d].
HandleCapture(s, d) ==
    LET req == s.requests[d]
        s1 == Learn(s, req.cfg)
    IN IF UnlearnedHashes(s1, req.cfg) # {} THEN RejectUnknown(s1, d)
       ELSE IF s1.to_check # <<>> THEN Enqueue(s1, d)
       ELSE IF Type(req.tap) \notin TapSlots THEN Raise(s1, "KeyError")
       ELSE IF ~TapInUse(s1, Type(req.tap)) /\ ConfigCompatibleWith(s1, req.cfg)
       THEN [s1 EXCEPT !.cr = d]
       ELSE Enqueue(s1, d)

\* One iteration that received no command (or an invalid one, which is
\* replaced by none).
IdleIteration(s, fault) ==
    LET s1 == Begin(s, "")
    IN PickAndAdmit(s1, RunningById(s1), fault)

\* One iteration that received ('capture', data); data is the last of requests.
CaptureIteration(s, fault) ==
    LET s1 == Begin(s, "capture")
    IN PickAndAdmit(HandleCapture(s1, Len(s.requests)), RunningById(s1), fault)

\* One iteration that received ('abort', id).
AbortIdIteration(s, id, fault) ==
    LET s1 == Begin(s, "abort")
    IN PickAndAdmit(AbortById(s1, id), RunningById(s1), fault)

\* An iteration that received ('abort', 'all') or ('exit', _), up to the point
\* where abort_all(join=True) blocks in thread.join().
JoinIteration(s, c) ==
    [AbortAll(Begin(s, c)) EXCEPT !.loop = "joining", !.cause = c]

\* recv_pyobj raised a ZMQError other than EAGAIN: abort_all without join,
\* then break (ETERM) or re-raise.
PipeErrorIteration(s, eterm) ==
    LET s1 == AbortAll(Begin(s, ""))
    IN IF eterm THEN [s1 EXCEPT !.loop = "stopped", !.cause = "ETERM"]
       ELSE Raise(s1, "ZMQError")

(***************************************************************************)
(* Actions                                                                 *)
(***************************************************************************)
Idle ==
    /\ loop = "running"
    /\ \E fault \in BOOLEAN : Becomes(IdleIteration(St, fault))

\* A client submits a request while fewer than limit were received.
CaptureUpTo(limit) ==
    /\ loop = "running"
    /\ Len(requests) < limit
    /\ \E k \in RequestKinds, n \in SampleCounts, fault \in BOOLEAN :
         LET s == [St EXCEPT !.requests = Append(requests, NewRequest(k[1], n, k[2]))]
         IN Becomes(CaptureIteration(s, fault))

Capture == CaptureUpTo(MaxReq)

AbortId ==
    /\ loop = "running"
    /\ \E id \in {Id(requests[r]) : r \in 1 .. Len(requests)} \cup {UnknownId},
          fault \in BOOLEAN :
         Becomes(AbortIdIteration(St, id, fault))

AbortAllCmd ==
    /\ loop = "running"
    /\ Becomes(JoinIteration(St, "abort all"))

Exit ==
    /\ loop = "running"
    /\ Becomes(JoinIteration(St, "exit"))

PipeError ==
    /\ loop = "running"
    /\ \E eterm \in BOOLEAN : Becomes(PipeErrorIteration(St, eterm))

\* The join that returns without waiting for the threads.
JoinedAtOnce ==
    /\ loop = "joining"
    /\ loop' = IF cause = "exit" THEN "stopped" ELSE "running"
    /\ cause' = IF cause = "exit" THEN "exit" ELSE "none"
    /\ UNCHANGED <<requests, threads, pipes, to_check, checked, tap_threads, cm,
                   effective, learned, cmd, cr, bad_merge, worker, capreq, photon, compare, command>>

\* thread.join() of abort_all has returned for every TapThread: after
\* 'abort all' the iteration ends (both queues are empty), after 'exit' main
\* breaks and returns.
Joined ==
    /\ loop = "joining"
    /\ \A r \in RunningById(St) : threads[r] = "dead"
    /\ loop' = IF cause = "exit" THEN "stopped" ELSE "running"
    /\ cause' = IF cause = "exit" THEN "exit" ELSE "none"
    /\ UNCHANGED <<requests, threads, pipes, to_check, checked, tap_threads, cm,
                   effective, learned, cmd, cr, bad_merge, worker, capreq, photon, compare, command>>

\* A worker ends its request, closes its end of the pipe, and its thread ends;
\* seen says that it took the 'abort' off its pipe.
WorkerEnds(r, status, seen) ==
    /\ threads[r] = "alive"
    /\ threads' = [threads EXCEPT ![r] = "dead"]
    /\ requests' = [requests EXCEPT ![r].status = status, ![r].observed = seen]
    /\ pipes' = [pipes EXCEPT ![r] = FALSE]
    /\ UNCHANGED <<to_check, checked, tap_threads, cm, effective, learned, loop,
                   cause, cmd, cr, bad_merge, worker, capreq, photon, compare, command>>

\* cr.finish() after the last chunk.
WorkerFinish ==
    \E r \in ReqIds : WorkerEnds(r, "finished", FALSE)

\* The failure that takes the workers on the other taps down with it.
WorkerFailStopsAll ==
    \E r \in ReqIds :
        /\ threads[r] = "alive"
        /\ threads' = [threads EXCEPT ![r] = "dead"]
        /\ requests' = [requests EXCEPT ![r].status = "failed"]
        /\ pipes' = [o \in ReqIds |-> o # r /\ threads[o] = "alive"]
        /\ UNCHANGED <<to_check, checked, tap_threads, cm, effective, learned, loop,
                       cause, cmd, cr, bad_merge, worker, capreq, photon, compare, command>>

\* cr.fail(...) on an exception.
WorkerFail ==
    \E r \in ReqIds : WorkerEnds(r, "failed", FALSE)

\* What a worker that caught CaptureAbortedException does to its request:
\* plram_cap and stamp_cap call cr.abort(e); photon_cap only sets stop and
\* leaves the request to photon_sender, which ends it with cr.finish().
CancelStatus(tap) == IF Type(tap) = "photon" THEN "finished" ELSE "aborted"

\* pipe.recv(zmq.NOBLOCK) returned the 'abort'.
WorkerAbort ==
    \E r \in ReqIds :
        /\ pipes[r]
        /\ WorkerEnds(r, CancelStatus(requests[r].tap), TRUE)

Workers ==
    \/ WorkerFinish
    \/ WorkerFail
    \/ WorkerAbort

Next ==
    \/ Idle
    \/ Capture
    \/ AbortId
    \/ AbortAllCmd
    \/ Exit
    \/ PipeError
    \/ Joined
    \/ Workers

Spec == Init /\ [][Next]_vars

\* The threads are scheduled: a worker that can end its request does so (its
\* chunk pulls return), and a join whose threads have all ended returns.
FairSpec == Spec /\ WF_vars(Workers) /\ WF_vars(Joined)

(***************************************************************************)
(* The scheduler under load: a behaviour that starts where one request     *)
(* runs on the engineering tap and a second one for that tap waits on the  *)
(* stale queue, and receives the remaining requests from there.            *)
(***************************************************************************)
BusyRequests ==
    << [NewRequest("adc", 1, Cfg(0, 1)) EXCEPT !.status = "running"],
       [NewRequest("iq", 1, Cfg(0, 1)) EXCEPT !.status = "queued", !.reason = "Queued"] >>

\* Main and the request objects in the loaded state.
BusyState ==
    /\ requests = BusyRequests
    /\ threads = [r \in ReqIds |-> IF r = 1 THEN "alive" ELSE "none"]
    /\ pipes = [r \in ReqIds |-> FALSE]
    /\ to_check = <<>>
    /\ checked = <<2>>
    /\ tap_threads = [k \in TapSlots |-> IF k = "engineering" THEN 1 ELSE 0]
    /\ cm = [x \in {Id(BusyRequests[1])} |-> ConfigHash(Cfg(0, 1))]
    /\ effective = ConfigHash(Cfg(0, 1))
    /\ learned = {<<"dac_setup", 1>>}
    /\ loop = "running"
    /\ cause = "none"
    /\ cmd = "capture"
    /\ cr = 0
    /\ bad_merge = FALSE
    /\ worker = NoWorker
    /\ capreq = NoCaptureRequest
    /\ photon = NoPhoton

InitBusy ==
    /\ compare = NoCompare
    /\ command = NoCommand
    /\ BusyState

CaptureBusy == CaptureUpTo(MaxReq + 1)

NextBusy ==
    \/ Idle
    \/ CaptureBusy
    \/ AbortId
    \/ AbortAllCmd
    \/ Exit
    \/ PipeError
    \/ Joined
    \/ Workers

SpecBusy == InitBusy /\ [][NextBusy]_vars

(***************************************************************************)
(* The loaded scheduler under the conditions of liveness: the hardware     *)
(* applies every configuration (fault is FALSE), no 'exit' arrives and the *)
(* pipe does not fail; every worker ends and every join returns.           *)
(***************************************************************************)
IdleLive ==
    /\ loop = "running"
    /\ Becomes(IdleIteration(St, FALSE))

CaptureLive ==
    /\ loop = "running"
    /\ Len(requests) < MaxReq + 1
    /\ \E k \in RequestKinds, n \in SampleCounts :
         LET s == [St EXCEPT !.requests = Append(requests, NewRequest(k[1], n, k[2]))]
         IN Becomes(CaptureIteration(s, FALSE))

AbortIdLive ==
    /\ loop = "running"
    /\ \E id \in {Id(requests[r]) : r \in 1 .. Len(requests)} \cup {UnknownId} :
         Becomes(AbortIdIteration(St, id, FALSE))

NextLive ==
    \/ IdleLive
    \/ CaptureLive
    \/ AbortIdLive
    \/ AbortAllCmd
    \/ Joined
    \/ Workers

\* The threads are scheduled: a worker that can end does, a join whose
\* threads have ended returns.
SpecLive ==
    /\ InitBusy
    /\ [][NextLive]_vars
    /\ WF_vars(Joined)
    /\ WF_vars(Workers)

(***************************************************************************)
(* The scheduler with two equal requests waiting: behind the running       *)
(* 'adc' request and the stale 'iq' request of the loaded start, two       *)
(* 'photon' requests with the same configuration, which conflicts with     *)
(* the one required, were received one after the other and wait on the     *)
(* stale queue.  No further request arrives.                               *)
(***************************************************************************)
OrderRequests ==
    BusyRequests \o
    << [NewRequest("photon", 1, Cfg(0, 2)) EXCEPT !.status = "queued", !.reason = "Queued"],
       [NewRequest("photon", 1, Cfg(0, 2)) EXCEPT !.status = "queued", !.reason = "Queued"] >>

InitOrder ==
    /\ compare = NoCompare
    /\ command = NoCommand
    /\ requests = OrderRequests
    /\ threads = [r \in ReqIds |-> IF r = 1 THEN "alive" ELSE "none"]
    /\ pipes = [r \in ReqIds |-> FALSE]
    /\ to_check = <<>>
    /\ checked = <<2, 3, 4>>
    /\ tap_threads = [k \in TapSlots |-> IF k = "engineering" THEN 1 ELSE 0]
    /\ cm = [x \in {Id(BusyRequests[1])} |-> ConfigHash(Cfg(0, 1))]
    /\ effective = ConfigHash(Cfg(0, 1))
    /\ learned = {<<"dac_setup", 1>>, <<"dac_setup", 2>>}
    /\ loop = "running"
    /\ cause = "none"
    /\ cmd = "capture"
    /\ cr = 0
    /\ bad_merge = FALSE
    /\ worker = NoWorker
    /\ capreq = NoCaptureRequest
    /\ photon = NoPhoton

NextOrder ==
    \/ IdleLive
    \/ AbortIdLive
    \/ AbortAllCmd
    \/ Joined
    \/ Workers

SpecOrder == InitOrder /\ [][NextOrder]_vars

(***************************************************************************)
(* The loaded scheduler with a status transport that can fail: in an       *)
(* iteration of the actions below, publishing 'queued' raises              *)
(* zmq.ZMQError, which main catches (l.501-503, l.527-529).                *)
(***************************************************************************)
QueuedRaises(s) == [s EXCEPT !.queued_raises = TRUE]

IdleLost ==
    /\ loop = "running"
    /\ \E fault \in BOOLEAN : Becomes(IdleIteration(QueuedRaises(St), fault))

CaptureLost ==
    /\ loop = "running"
    /\ Len(requests) < MaxReq + 1
    /\ \E k \in RequestKinds, n \in SampleCounts, fault \in BOOLEAN :
         LET s == [St EXCEPT !.requests = Append(requests, NewRequest(k[1], n, k[2])),
                             !.queued_raises = TRUE]
         IN Becomes(CaptureIteration(s, fault))

AbortIdLost ==
    /\ loop = "running"
    /\ \E id \in {Id(requests[r]) : r \in 1 .. Len(requests)} \cup {UnknownId},
          fault \in BOOLEAN :
         Becomes(AbortIdIteration(QueuedRaises(St), id, fault))

NextTransport ==
    \/ NextBusy
    \/ IdleLost
    \/ CaptureLost
    \/ AbortIdLost

SpecTransport == InitBusy /\ [][NextTransport]_vars

(***************************************************************************)
(* One engineering worker, chunk by chunk: plram_cap runs in its thread on *)
(* a request of size_bytes bytes while main, at any moment, may put an     *)
(* 'abort' on its pipe.  worker.out is what the worker publishes, data     *)
(* and status in the order of the calls.                                   *)
(***************************************************************************)
\* CHUNKING_THRESHOLD, scaled down from 1024 ** 2 bytes.
CHUNKING_THRESHOLD == 2

\* The largest cr.size_bytes of a request.
MaxSize == 7

main_vars == <<requests, threads, pipes, to_check, checked, tap_threads, cm,
               effective, learned, loop, cause, cmd, cr, bad_merge>>

\* What the data socket carries for one add_data.
DataEvent(size) == [kind |-> "data", status |-> "", size |-> size, k |-> 0, n |-> 0]

\* What the status socket carries for one set_status; k/n is the progress
\* message of add_data.
StatusEvent(status, k, n) == [kind |-> "status", status |-> status, size |-> 0, k |-> k, n |-> n]

\* The number of chunks published.
DataCount(out) == Cardinality({j \in 1 .. Len(out) : out[j].kind = "data"})

\* The thread of a request of size_bytes bytes has been started.
NewWorker(size_bytes) == [NoWorker EXCEPT !.pc = "start", !.size_bytes = size_bytes]

InitWorker ==
    /\ compare = NoCompare
    /\ command = NoCommand
    /\ InitMain
    /\ \E size_bytes \in 0 .. MaxSize : worker = NewWorker(size_bytes)
    /\ capreq = NoCaptureRequest
    /\ photon = NoPhoton

WorkerBecomes(w) == worker' = w /\ UNCHANGED <<main_vars, capreq, photon, compare, command>>

\* The chunk list that forgets the partial chunk.
ChunksNoPartial(size_bytes) ==
    [k \in 1 .. (size_bytes \div CHUNKING_THRESHOLD) |-> CHUNKING_THRESHOLD]

\* plram_cap: the sizes of the chunks to capture.
Chunks(size_bytes) ==
    LET nchunks == size_bytes \div CHUNKING_THRESHOLD
        partial == size_bytes - CHUNKING_THRESHOLD * nchunks
        chunks == [k \in 1 .. nchunks |-> CHUNKING_THRESHOLD]
    IN IF partial # 0 THEN Append(chunks, partial) ELSE chunks

\* The start that goes on into the loop after it failed the request.
PlramStartCarriesOn ==
    /\ worker.pc = "start"
    /\ \E failmsg \in {"", "assert", "establish"} :
          LET chunks == Chunks(worker.size_bytes)
          IN WorkerBecomes(
                [worker EXCEPT !.pc = IF chunks = <<>> THEN "finish" ELSE "check",
                               !.chunks = chunks,
                               !.failmsg = failmsg,
                               !.out = Append(@, StatusEvent(IF failmsg = "" THEN "established"
                                                             ELSE "failed", 0, 0))])

\* plram_cap up to the loop.  failmsg "assert": one of the assertions fails,
\* cr.establish still runs and publishes 'established'; "establish":
\* cr.establish raises ZMQError.  With a failmsg the request is failed and
\* the worker returns (its pipe stays open).  Otherwise the chunk list is
\* built and the loop entered.
PlramStart ==
    /\ worker.pc = "start"
    /\ \E failmsg \in {"", "assert", "establish"} :
          LET chunks == Chunks(worker.size_bytes)
              established == IF failmsg = "establish" THEN worker.out
                             ELSE Append(worker.out, StatusEvent("established", 0, 0))
          IN WorkerBecomes(
                IF failmsg = ""
                THEN [worker EXCEPT !.pc = IF chunks = <<>> THEN "finish" ELSE "check",
                                    !.chunks = chunks,
                                    !.out = established]
                ELSE [worker EXCEPT !.pc = "done",
                                    !.failmsg = failmsg,
                                    !.out = Append(established, StatusEvent("failed", 0, 0))])

\* The check that never looks at the pipe.
PlramCheckBlind ==
    /\ worker.pc = "check"
    /\ WorkerBecomes([worker EXCEPT !.pc = "pull"])

\* The top of a loop iteration: pipe.recv(zmq.NOBLOCK); an 'abort' raises
\* CaptureAbortedException, whose handler aborts the request, and the worker
\* closes its pipe and ends.
PlramCheck ==
    /\ worker.pc = "check"
    /\ WorkerBecomes(
          IF worker.abort
          THEN [worker EXCEPT !.pc = "done", !.abort = FALSE, !.closed = TRUE,
                              !.out = Append(@, StatusEvent("aborted", 0, 0))]
          ELSE [worker EXCEPT !.pc = "pull"])

\* The rest of the iteration: ol.capture.capture returns the chunk in a
\* buffer, add_data publishes it and then the status 'capturing' with message
\* i+1/len(chunks), data.free_buffer() releases the buffer.
PlramPull ==
    /\ worker.pc = "pull"
    /\ LET k == worker.i + 1
           n == Len(worker.chunks)
       IN WorkerBecomes(
             [worker EXCEPT !.i = k,
                            !.pulls = @ + 1,
                            !.pc = IF k = n THEN "finish" ELSE "check",
                            !.out = @ \o << DataEvent(worker.chunks[k]),
                                            StatusEvent("capturing", k, n) >>])

\* An exception in the iteration: raised by ol.capture.capture (no buffer was
\* handed out), by add_data before the data went out ("data") or by its
\* set_status after that ("status"); in the last two the worker holds the
\* buffer and the handler does not free it.  The request fails, the worker
\* closes its pipe and ends.
PlramFail ==
    /\ worker.pc = "pull"
    /\ \E stage \in {"capture", "data", "status"} :
          WorkerBecomes(
             [worker EXCEPT !.pc = "done", !.closed = TRUE,
                            !.pulls = @ + 1,
                            !.held = IF stage = "capture" THEN @ ELSE @ + 1,
                            !.out = (IF stage = "status"
                                     THEN Append(@, DataEvent(worker.chunks[worker.i + 1]))
                                     ELSE @) \o << StatusEvent("failed", 0, 0) >>])

\* cr.finish() after the loop, then pipe.close().
PlramFinish ==
    /\ worker.pc = "finish"
    /\ WorkerBecomes(
          [worker EXCEPT !.pc = "done", !.closed = TRUE,
                         !.out = Append(@, StatusEvent("finished", 0, 0))])

\* The send that loses its message.
SendAbortLost ==
    /\ worker.pc # "none"
    /\ worker.sent_at = -1
    /\ WorkerBecomes([worker EXCEPT !.sent_at = DataCount(worker.out),
                                    !.sent_pc = worker.pc])

\* TapThread.abort, called by main (abort_by_id, abort_all) for the worker in
\* the slot; sent_at and sent_pc remember how many chunks were out and where
\* the worker stood.
SendAbort ==
    /\ worker.pc # "none"
    /\ worker.sent_at = -1
    /\ WorkerBecomes([worker EXCEPT !.abort = TRUE,
                                    !.sent_at = DataCount(worker.out),
                                    !.sent_pc = worker.pc])

PlramSteps ==
    \/ PlramStart
    \/ PlramCheck
    \/ PlramPull
    \/ PlramFail
    \/ PlramFinish

NextWorker ==
    \/ PlramSteps
    \/ SendAbort

SpecWorker == InitWorker /\ [][NextWorker]_vars

\* The worker's thread is scheduled and its chunk pulls return.
FairWorker == SpecWorker /\ WF_vars(PlramSteps)

(***************************************************************************)
(* One CaptureRequest object under the calls of its users: main publishes  *)
(* 'queued' and 'running' and de-establishes, a worker establishes, adds   *)
(* data and ends the request, a client may call anything.  A socket is     *)
(* "none", "open" or "closed"; sending on a closed socket raises.          *)
(***************************************************************************)
\* The calls made on one request object.
MaxCalls == 4

\* The feedline_server arguments of the requests.
Servers == {"tcp://a", "tcp://b"}

\* CaptureRequest.__hash__ and id: the hash of the configuration, the tap,
\* the points and the feedline server.
RequestId(q) == <<ConfigHash(q.cfg), q.tap, q.points, q.server>>

\* A call begins: nothing raised yet.
Called(q, name) == [q EXCEPT !.raised = FALSE, !.call = name, !.calls = @ + 1]

\* CaptureRequest.set_status: _last_status is set, a status socket is made
\* when there is none, and the status is sent on it.
SendStatus(q, status) ==
    LET q1 == [q EXCEPT !.last_status = status]
        q2 == IF q1.status_socket = "none"
              THEN [q1 EXCEPT !.status_socket = "open", !.status_via = "set_status",
                              !.opened = @ + 1]
              ELSE q1
    IN IF q2.status_socket = "open"
       THEN [q2 EXCEPT !.trace = Append(@, [kind |-> "status", status |-> status,
                                            via |-> q2.status_via])]
       ELSE [q2 EXCEPT !.raised = TRUE]

\* CaptureRequest.establish: two new sockets, _established, 'established'.
Establish(q) ==
    SendStatus([q EXCEPT !.status_socket = "open", !.status_via = "establish",
                         !.data_socket = "open", !.opened = @ + 2,
                         !.established = "yes", !.terminated = FALSE],
               "established")

\* CaptureRequest.destablish: the sockets there are get closed.
Destablish(q) ==
    [q EXCEPT !.status_socket = IF @ = "none" THEN "none" ELSE "closed",
              !.data_socket = IF @ = "none" THEN "none" ELSE "closed",
              !.established = "no"]

\* The end that keeps the channels.
TerminateAndKeep(q, status) == SendStatus(q, status)

\* CaptureRequest.fail, finish, abort: set_status, then destablish; a
\* set_status that raises leaves the method before destablish.
Terminate(q, status) ==
    LET q1 == SendStatus(q, status)
    IN IF q1.raised THEN q1 ELSE [Destablish(q1) EXCEPT !.terminated = TRUE]

\* The add_data that sends whatever the state of the request.
AddDataAlways(q) ==
    SendStatus([q EXCEPT !.trace = Append(@, [kind |-> "data", status |-> "",
                                              via |-> "establish"])],
               "capturing")

\* CaptureRequest.add_data: raises unless _established (AttributeError when
\* the attribute was never set, RuntimeError when it is False); else the
\* data is sent, then 'capturing'.
AddData(q) ==
    IF q.established # "yes" THEN [q EXCEPT !.raised = TRUE]
    ELSE SendStatus([q EXCEPT !.trace = Append(@, [kind |-> "data", status |-> "",
                                                   via |-> "establish"])],
                    "capturing")

RequestBecomes(q) == capreq' = q /\ UNCHANGED <<main_vars, worker, photon, compare, command>>

InitRequest ==
    /\ compare = NoCompare
    /\ command = NoCommand
    /\ InitMain
    /\ worker = NoWorker
    /\ photon = NoPhoton
    /\ \E tap \in {"adc", "photon"}, server \in Servers :
          capreq = NewCaptureRequest(tap, 1, Cfg(0, 1), server)

CallEstablish ==
    /\ capreq.calls < MaxCalls
    /\ RequestBecomes(Establish(Called(capreq, "establish")))

CallDestablish ==
    /\ capreq.calls < MaxCalls
    /\ RequestBecomes(Destablish(Called(capreq, "destablish")))

\* set_status as main calls it.
CallSetStatus ==
    /\ capreq.calls < MaxCalls
    /\ \E status \in {"queued", "running"} :
          RequestBecomes(SendStatus(Called(capreq, "set_status"), status))

CallAddData ==
    /\ capreq.calls < MaxCalls
    /\ RequestBecomes(AddData(Called(capreq, "add_data")))

CallFail ==
    /\ capreq.calls < MaxCalls
    /\ RequestBecomes(Terminate(Called(capreq, "fail"), "failed"))

CallFinish ==
    /\ capreq.calls < MaxCalls
    /\ RequestBecomes(Terminate(Called(capreq, "finish"), "finished"))

CallAbort ==
    /\ capreq.calls < MaxCalls
    /\ RequestBecomes(Terminate(Called(capreq, "abort"), "aborted"))

NextRequest ==
    \/ CallEstablish
    \/ CallDestablish
    \/ CallSetStatus
    \/ CallAddData
    \/ CallFail
    \/ CallFinish
    \/ CallAbort

SpecRequest == InitRequest /\ [][NextRequest]_vars

(***************************************************************************)
(* One photon worker: photon_cap polls its pipe in the worker thread while *)
(* photon_sender, a second thread, publishes what the fountain hands it    *)
(* and ends the request when it is handed None, which the fountain does    *)
(* once stop is set.  Both threads call methods of the one request object; *)
(* a terminal method is two steps, set_status and destablish, and the      *)
(* other thread may run between them.                                      *)
(***************************************************************************)
\* The batches of photons the fountain hands the sender.
MaxPhotons == 2

PhotonBecomes(q, ph) == capreq' = q /\ photon' = ph /\ UNCHANGED <<main_vars, worker, compare, command>>

\* The request as main hands it to the thread: 'running' was published and
\* the request de-established.
InitPhoton ==
    /\ compare = NoCompare
    /\ command = NoCommand
    /\ InitMain
    /\ worker = NoWorker
    /\ \E server \in Servers :
          capreq = Destablish(SendStatus(NewCaptureRequest("photon", 1, Cfg(0, 1), server),
                                         "running"))
    /\ photon = [NoPhoton EXCEPT !.pc = "start"]

\* cr.completed: the request has been ended.
Completed(q) == q.last_status \in {"finished", "failed", "aborted"}

\* photon_cap up to its loop: assertion and establish as in plram_cap; then
\* the sender and the fountain are started and the capture begun.
PhotonStart ==
    /\ photon.pc = "start"
    /\ \E failmsg \in {"", "assert", "establish"} :
          LET est == IF failmsg = "establish" THEN capreq ELSE Establish(capreq)
          IN IF failmsg = ""
             THEN PhotonBecomes(est, [photon EXCEPT !.pc = "poll", !.sender = "recv"])
             ELSE PhotonBecomes(Destablish(Terminate(est, "failed")),
                                [photon EXCEPT !.pc = "done"])

\* One turn of `while not cr.completed`: the loop ends when the request was
\* ended; an 'abort' on the pipe raises CaptureAbortedException, whose
\* handler only sets stop.
PhotonPoll ==
    /\ photon.pc = "poll"
    /\ \/ /\ Completed(capreq)
          /\ PhotonBecomes(capreq, [photon EXCEPT !.pc = "finally"])
       \/ /\ ~Completed(capreq)
          /\ photon.abort
          /\ PhotonBecomes(capreq, [photon EXCEPT !.pc = "finally", !.stop = TRUE,
                                                  !.abort = FALSE])

\* Another exception in the loop: stop.set(), then cr.fail, of which this is
\* the set_status; when that raises the handler is left.
PhotonError ==
    /\ photon.pc = "poll"
    /\ LET q == SendStatus([capreq EXCEPT !.raised = FALSE], "failed")
       IN PhotonBecomes(q, [photon EXCEPT !.stop = TRUE,
                                          !.pc = IF q.raised THEN "finally" ELSE "failing"])

\* The destablish of that cr.fail.
PhotonFailDestablish ==
    /\ photon.pc = "failing"
    /\ PhotonBecomes([Destablish(capreq) EXCEPT !.terminated = TRUE],
                     [photon EXCEPT !.pc = "finally"])

\* The finally block; the thread ends.
PhotonFinally ==
    /\ photon.pc = "finally"
    /\ PhotonBecomes(capreq, [photon EXCEPT !.pc = "done", !.stop = TRUE])

\* photon_sender receives photons and calls cr.add_data; an exception goes
\* to its handler.
SenderData ==
    /\ photon.sender = "recv"
    /\ photon.photons < MaxPhotons
    /\ LET q == AddData([capreq EXCEPT !.raised = FALSE])
       IN PhotonBecomes(q, [photon EXCEPT !.photons = @ + 1,
                                          !.sender = IF q.raised THEN "abort" ELSE "recv"])

\* photon_sender receives None and calls cr.finish(), of which this is the
\* set_status.
SenderNone ==
    /\ photon.sender = "recv"
    /\ photon.stop
    /\ LET q == SendStatus([capreq EXCEPT !.raised = FALSE], "finished")
       IN PhotonBecomes(q, [photon EXCEPT !.sender = IF q.raised THEN "abort"
                                                     ELSE "finishing"])

\* The destablish of that cr.finish(); the sender ends.
SenderFinishDestablish ==
    /\ photon.sender = "finishing"
    /\ PhotonBecomes([Destablish(capreq) EXCEPT !.terminated = TRUE],
                     [photon EXCEPT !.sender = "done"])

\* q.recv_pyobj raises.
SenderError ==
    /\ photon.sender = "recv"
    /\ PhotonBecomes(capreq, [photon EXCEPT !.sender = "abort"])

\* The handler of photon_sender: cr.abort('Uncaught exception: ...'), of
\* which this is the set_status; when that raises the thread ends.
SenderAbort ==
    /\ photon.sender = "abort"
    /\ LET q == SendStatus([capreq EXCEPT !.raised = FALSE], "aborted")
       IN PhotonBecomes(q, [photon EXCEPT !.sender = IF q.raised THEN "done"
                                                     ELSE "aborting"])

\* The destablish of that cr.abort; q.close(), raise: the sender ends.
SenderAbortDestablish ==
    /\ photon.sender = "aborting"
    /\ PhotonBecomes([Destablish(capreq) EXCEPT !.terminated = TRUE],
                     [photon EXCEPT !.sender = "done"])

\* TapThread.abort, called by main for the worker in the photon slot.
PhotonSendAbort ==
    /\ photon.pc \in {"start", "poll"}
    /\ ~photon.abort
    /\ PhotonBecomes(capreq, [photon EXCEPT !.abort = TRUE])

NextPhoton ==
    \/ PhotonStart
    \/ PhotonPoll
    \/ PhotonError
    \/ PhotonFailDestablish
    \/ PhotonFinally
    \/ SenderData
    \/ SenderNone
    \/ SenderFinishDestablish
    \/ SenderError
    \/ SenderAbort
    \/ SenderAbortDestablish
    \/ PhotonSendAbort

SpecPhoton == InitPhoton /\ [][NextPhoton]_vars

(***************************************************************************)
(* The comparison of two meta configurations, objects.py                   *)
(* FLMetaConfigMixin.__eq__.  A field of a meta configuration holds None,  *)
(* an int (the hash of a sub-configuration sent by reference), an object   *)
(* of a class with FLMetaConfigMixin, or an object of a class with         *)
(* FLConfigMixin (DACConfig, IFConfig, TriggerConfig, ChannelConfig,       *)
(* DDCConfig, FilterConfig).                                               *)
(***************************************************************************)
\* The hashes a field value can stand for.
MaxHash == 2

FieldKinds == {"NoneType", "int", "FLMetaConfigMixin", "FLConfigMixin"}

FieldValues ==
    {[kind |-> "NoneType", hash |-> 0]}
        \cup [kind : FieldKinds \ {"NoneType"}, hash : 1 .. MaxHash]

\* self.__dict__ of a meta configuration, in insertion order.
FieldOrder == << "if_setup", "dac_setup" >>

MetaConfigs == [{FieldOrder[i] : i \in 1 .. Len(FieldOrder)} -> FieldValues]

\* isinstance(v, (FLMetaConfigMixin, type(None), int))
IsInstance(v) == v.kind \in {"FLMetaConfigMixin", "NoneType", "int"}

\* a == b from field i of self.__dict__ on: "True", "False", or the
\* AssertionError that leaves __eq__.
RECURSIVE EqFrom(_, _, _)
EqFrom(a, b, i) ==
    IF i > Len(FieldOrder) THEN "True"
    ELSE LET v == a[FieldOrder[i]]
             other_v == b[FieldOrder[i]]
         IN  IF ~IsInstance(v) \/ ~IsInstance(other_v) THEN "AssertionError"
             ELSE IF v.kind = "NoneType" \/ other_v.kind = "NoneType"
                  THEN EqFrom(a, b, i + 1)
             ELSE IF v.hash # other_v.hash THEN "False"
             ELSE EqFrom(a, b, i + 1)

\* FLMetaConfigMixin.__eq__(self, other)
MetaEq(self, other) == EqFrom(self, other, 1)

CompareBecomes(c) ==
    compare' = c /\ UNCHANGED <<main_vars, worker, capreq, photon, command>>

InitCompare ==
    /\ InitMain
    /\ worker = NoWorker
    /\ capreq = NoCaptureRequest
    /\ photon = NoPhoton
    /\ command = NoCommand
    /\ \E a \in MetaConfigs, b \in MetaConfigs :
          compare = [pc |-> "start", a |-> a, b |-> b,
                     ab |-> "", ba |-> "", aa |-> ""]

\* a == b, b == a and a == a are evaluated.
CompareEq ==
    /\ compare.pc = "start"
    /\ CompareBecomes([compare EXCEPT !.pc = "done",
                                      !.ab = MetaEq(compare.a, compare.b),
                                      !.ba = MetaEq(compare.b, compare.a),
                                      !.aa = MetaEq(compare.a, compare.a)])

NextCompare == CompareEq

SpecCompare == InitCompare /\ [][NextCompare]_vars

(***************************************************************************)
(* The command server of __main__ next to the loaded scheduler.  The       *)
(* server handles one command at a time; what it sends down cap_pipe       *)
(* waits there until main's recv_pyobj of a later iteration takes it.      *)
(* 'status' touches nothing that is followed here, and 'reset' is not      *)
(* followed.                                                               *)
(***************************************************************************)
\* The messages that can wait on cap_pipe.
MaxInbox == 2

AbortAllMessage == << "abort", "all" >>

InitCommand ==
    /\ compare = NoCompare
    /\ BusyState
    /\ command = [pc |-> "recv", inbox |-> <<>>, quiet |-> FALSE, pulling |-> {}]

CommandBecomes(c) == command' = c /\ UNCHANGED <<main_vars, worker, capreq, photon, compare>>

\* The capture thread is alive: main has neither returned nor raised.
ThreadIsAlive == loop \in {"running", "joining"}

\* The capture messages that wait on cap_pipe.
CapturesWaiting ==
    Cardinality({i \in DOMAIN command.inbox : command.inbox[i][1] = "capture"})

\* cmd == 'capture': cap_pipe.send_pyobj(('capture', arg)), then the reply.
CommandCapture ==
    /\ command.pc = "recv"
    /\ ThreadIsAlive
    /\ Len(command.inbox) < MaxInbox
    /\ Len(requests) + CapturesWaiting < MaxReq + 1
    /\ \E k \in RequestKinds :
          CommandBecomes([command EXCEPT !.inbox = Append(@, << "capture", k >>)])

\* cmd == 'bequiet': cap_pipe.send_pyobj(('abort', 'all')) ...
CommandBequiet ==
    /\ command.pc = "recv"
    /\ ThreadIsAlive
    /\ Len(command.inbox) < MaxInbox
    /\ CommandBecomes([command EXCEPT !.pc = "bequiet",
                                      !.inbox = Append(@, AbortAllMessage)])

\* ... then fr.hardware.bequiet(**json.loads(arg)) and the reply 'OK', or
\* 'ERROR: ...' when the hardware raised; pulling holds the workers that are
\* alive when the hardware goes quiet.
HardwareBequiet ==
    /\ command.pc = "bequiet"
    /\ \E raised \in BOOLEAN :
          CommandBecomes(IF raised
                         THEN [command EXCEPT !.pc = "recv"]
                         ELSE [command EXCEPT !.pc = "recv", !.quiet = TRUE,
                                  !.pulling = {r \in ReqIds : threads[r] = "alive"}])

\* main's recv_pyobj(zmq.NOBLOCK) finds nothing on the pipe.
MainNoCommand ==
    /\ command.inbox = <<>>
    /\ Idle

\* main's recv_pyobj takes ('abort', 'all').
MainAbortAll ==
    /\ loop = "running"
    /\ command.inbox # <<>>
    /\ Head(command.inbox) = AbortAllMessage
    /\ Assign(JoinIteration(St, "abort all"))
    /\ command' = [command EXCEPT !.inbox = Tail(@)]
    /\ UNCHANGED <<worker, capreq, photon, compare>>

\* main's recv_pyobj takes ('capture', data).
MainCapture ==
    /\ loop = "running"
    /\ command.inbox # <<>>
    /\ Head(command.inbox)[1] = "capture"
    /\ \E n \in SampleCounts, fault \in BOOLEAN :
         LET k == Head(command.inbox)[2]
             s == [St EXCEPT !.requests = Append(requests, NewRequest(k[1], n, k[2]))]
         IN Assign(CaptureIteration(s, fault))
    /\ command' = [command EXCEPT !.inbox = Tail(@)]
    /\ UNCHANGED <<worker, capreq, photon, compare>>

NextCommand ==
    \/ CommandCapture
    \/ CommandBequiet
    \/ HardwareBequiet
    \/ MainNoCommand
    \/ MainAbortAll
    \/ MainCapture
    \/ Joined
    \/ Workers

SpecCommand == InitCommand /\ [][NextCommand]_vars

(***************************************************************************)
(* Properties                                                              *)
(***************************************************************************)
Received == 1 .. Len(requests)

\* The worker of r was started and has not been reaped.
Unreaped(r) == threads[r] \in {"alive", "dead"}

\* The members of a queue.
Members(q) == {q[i] : i \in 1 .. Len(q)}

\* No field has two different concrete values.
NoConflict(a, b) ==
    \A k \in Fields : a[k] = 0 \/ b[k] = 0 \/ HashOf(a[k]) = HashOf(b[k])

\* The state in which the admission of an iteration runs: after the reap.
Reaped == CleanupCompleted(St)

\* C1: tap exclusivity.  In every reachable state at most one worker that was
\* started and not yet reaped exists per tap type ('adc', 'iq' and 'phase'
\* being the one type 'engineering'), and a step starts a worker only for a
\* request whose slot in _tap_threads is empty once the ended workers are
\* reaped.
C1_TapExclusive ==
    /\ [](\A r1, r2 \in Received :
            (r1 # r2 /\ Unreaped(r1) /\ Unreaped(r2))
                => Type(requests[r1].tap) # Type(requests[r2].tap))
    /\ [][\A r \in Received :
            (threads[r] = "none" /\ threads'[r] = "alive")
                => /\ Type(requests[r].tap) \in TapSlots
                   /\ Reaped.tap_threads[Type(requests[r].tap)] = 0
                   /\ tap_threads'[Type(requests[r].tap)] = r]_vars

\* Two requests with different tap names share the engineering tap: one runs,
\* the other waits on the stale queue.
C1_Witness ==
    \E r1, r2 \in Received :
        /\ requests[r1].tap # requests[r2].tap
        /\ Type(requests[r1].tap) = Type(requests[r2].tap)
        /\ threads[r1] = "alive"
        /\ tap_threads[Type(requests[r1].tap)] = r1
        /\ r2 \in Members(checked)

\* C2: configuration safety.  In every reachable state the configurations of
\* the requests whose workers occupy a tap slot are pairwise free of
\* conflicts, and ConfigManager.add was never called with a configuration in
\* conflict with the effective one.
C2_ConfigSafety ==
    /\ \A k1, k2 \in Occupied(St) :
          NoConflict(requests[tap_threads[k1]].cfg, requests[tap_threads[k2]].cfg)
    /\ ~bad_merge

\* Two workers run at once under two different configurations.
C2_Witness ==
    \E k1, k2 \in Occupied(St) :
        /\ k1 # k2
        /\ requests[tap_threads[k1]].cfg # requests[tap_threads[k2]].cfg
        /\ threads[tap_threads[k1]] = "alive"
        /\ threads[tap_threads[k2]] = "alive"

\* C3: at every boundary between two iterations of the loop the ids the
\* ConfigManager tracks are the ids of the requests that occupy a tap slot,
\* each with its configuration, and the effective configuration is the
\* field-wise merge of exactly those configurations.
C3_ManagerTracksSlots ==
    loop = "running" =>
        /\ DOMAIN cm = {Id(requests[r]) : r \in RunningById(St)}
        /\ \A r \in RunningById(St) : cm[Id(requests[r])] = ConfigHash(requests[r].cfg)
        /\ effective = MergeAll({ConfigHash(requests[r].cfg) : r \in RunningById(St)})

\* A request was released while another one, with another configuration,
\* keeps running.
C3_Witness ==
    /\ loop = "running"
    /\ \E r1, r2 \in Received :
        /\ threads[r1] = "reaped"
        /\ r2 \in RunningById(St)
        /\ ConfigHash(requests[r1].cfg) # ConfigHash(requests[r2].cfg)
        /\ effective = ConfigHash(requests[r2].cfg)

\* The step is an iteration that received a capture request, New.
Arrives == Len(requests') = Len(requests) + 1

New == Len(requests')

\* A worker on tap type t runs on while the iteration reaps.
TapBusy(t) ==
    \E r \in Received : Type(requests[r].tap) = t /\ threads[r] = "alive"

\* Request r ends the step waiting, with message why.
WaitsWith(r, why) ==
    /\ requests'[r].status = "queued"
    /\ requests'[r].reason = why
    /\ r \in Members(to_check') \cup Members(checked')
    /\ threads'[r] = "none"

\* C4: a request that arrives while a worker occupies its tap is queued with
\* a message that says that the tap is in use.
C4_QueuedAsTapBusy ==
    [][(/\ Arrives
        /\ TapBusy(Type(requests'[New].tap))
        /\ ~requests'[New].rejected
        /\ loop' = "running")
          => WaitsWith(New, "tap in use")]_vars

\* C5: a request for a free tap that arrives while its configuration
\* conflicts with the effective one is queued with a message that says that
\* the configuration conflicts.
C5_QueuedAsConflict ==
    [][LET freed == Reaped.effective IN
       (/\ Arrives
        /\ ~TapBusy(Type(requests'[New].tap))
        /\ ~NoConflict(freed, requests'[New].cfg)
        /\ ~requests'[New].rejected
        /\ loop' = "running")
         => WaitsWith(New, "incompatible")]_vars


Terminal == {"finished", "failed", "aborted"}

\* C6: the second of two requests on different taps with configurations free
\* of conflict, submitted to a scheduler that holds nothing but the first, is
\* running and was never queued when the iteration that received it ends,
\* unless the hardware refused the configuration.
C6_BothRunUnqueued ==
    [][(/\ Arrives
        /\ New = 2
        /\ requests[1].status \in {"running", "finished"}
        /\ requests[1].reason = "none"
        /\ Type(requests[1].tap) # Type(requests'[2].tap)
        /\ NoConflict(requests[1].cfg, requests'[2].cfg)
        /\ ~requests'[2].rejected
        /\ cause' # "hardware")
          => /\ requests'[2].status = "running"
             /\ requests'[2].reason = "none"
             /\ threads'[2] = "alive"]_vars

\* C7: once main has ended on a failure to apply the configuration and no
\* worker runs any more, every request the scheduler received is in a
\* terminal state.
C7_AllTerminalAfterFailure ==
    (/\ cause = "hardware"
     /\ loop \in {"stopped", "raised"}
     /\ \A r \in Received : threads[r] # "alive")
        => \A r \in Received : requests[r].status \in Terminal

\* C8: when main has ended on 'exit' or on a failure to apply the
\* configuration, no worker thread is alive.
C8_StoppedMeansJoined ==
    (loop \in {"stopped", "raised"} /\ cause \in {"exit", "hardware"})
        => \A r \in Received : threads[r] # "alive"

\* C9: a request rejected for a hash that was never taught in full has the
\* terminal status 'failed'.
C9_UnknownFails ==
    \A r \in Received : requests[r].rejected => requests[r].status = "failed"

\* C10: a request rejected for an unknown hash is on neither queue, has no
\* worker, occupies no tap slot and was never queued; and the iteration that
\* rejects it leaves the queues, the tap slots, the threads, the
\* ConfigManager, the effective configuration, the other requests and the
\* loop as the iteration without a command does, which examines the head of
\* the fresh queue.
C10_RejectedLeavesNoTrace ==
    /\ [](\A r \in Received : requests[r].rejected =>
            /\ r \notin Members(to_check) \cup Members(checked)
            /\ threads[r] = "none"
            /\ \A k \in TapSlots : tap_threads[k] # r
            /\ requests[r].reason = "none")
    /\ [][(Arrives /\ requests'[New].rejected) =>
            \E fault \in BOOLEAN :
                LET idle == IdleIteration(St, fault)
                IN /\ to_check' = idle.to_check
                   /\ checked' = idle.checked
                   /\ tap_threads' = idle.tap_threads
                   /\ threads' = idle.threads
                   /\ cm' = idle.cm
                   /\ effective' = idle.effective
                   /\ cr' = idle.cr
                   /\ loop' = idle.loop
                   /\ \A r \in Received : requests'[r] = idle.requests[r]]_vars

\* The iteration that rejected the latest request went on to take the head of
\* the fresh queue, a request queued before, and started its worker.
C10_Witness ==
    /\ cmd = "capture"
    /\ requests[Len(requests)].rejected
    /\ cr \in Received \ {Len(requests)}
    /\ requests[cr].reason = "Queued"
    /\ requests[cr].status = "running"
    /\ tap_threads[Type(requests[cr].tap)] = cr

\* C11: an iteration that receives a capture request whose tap type has no
\* slot in _tap_threads rejects it: main keeps running, the request is
\* terminal, it is on neither queue, and the tap slots and the ConfigManager
\* are as the reap left them.
C11_MalformedRejected ==
    [][(Arrives /\ Type(requests'[New].tap) \notin TapSlots) =>
          LET reaped == Reaped
          IN /\ loop' = "running"
             /\ requests'[New].status \in Terminal
             /\ New \notin Members(to_check') \cup Members(checked')
             /\ tap_threads' = reaped.tap_threads
             /\ cm' = reaped.cm
             /\ effective' = reaped.effective
             /\ learned' = learned]_vars

\* C12: a request of any tap with a configuration that is known, submitted to
\* a scheduler that holds nothing else, has a worker recorded against the slot
\* of its tap type and is running when the iteration ends, unless the hardware
\* refused the configuration.
C12_EveryTapSchedulable ==
    [][(/\ Arrives
        /\ New = 1
        /\ ~requests'[New].rejected
        /\ cause' # "hardware")
          => /\ Type(requests'[New].tap) \in TapSlots
             /\ tap_threads'[Type(requests'[New].tap)] = New
             /\ threads'[New] = "alive"
             /\ requests'[New].status = "running"]_vars

\* C13: a request whose worker took the 'abort' off its pipe and has ended is
\* in status 'aborted'.
C13_ObservedCancelAborts ==
    \A r \in Received :
        (requests[r].observed /\ threads[r] \in {"dead", "reaped"})
            => requests[r].status = "aborted"

Queued == Members(to_check) \cup Members(checked)

\* C14: when an iteration that received an abort of an id has aborted a
\* queued request, no request of that id is left on the fresh or the stale
\* queue.
C14_AbortByIdRemovesAll ==
    [][(cmd' = "abort" /\ loop = "running" /\ loop' = "running") =>
          \A q \in Queued :
              (requests[q].status = "queued" /\ requests'[q].status = "aborted")
                  => \A o \in Members(to_check') \cup Members(checked') :
                         Id(requests'[o]) # Id(requests'[q])]_vars

\* The ids a client can name in an abort.
AbortIds == {Id(requests[r]) : r \in Received} \cup {UnknownId}

\* No request that occupies a tap slot or waits on a queue of s has this id.
NamesNothing(s, id) ==
    \A r \in RunningById(s) \cup Members(s.to_check) \cup Members(s.checked) :
        Id(s.requests[r]) # id

\* C15: an iteration that receives the abort of an id that names neither a
\* request in a tap slot nor a queued request leaves the queues, the tap
\* slots, the pipes, the ConfigManager, every request and the loop exactly as
\* the iteration without a command does.
C15_UnknownAbortIgnored ==
    [][(/\ loop = "running"
        /\ cmd' = "abort"
        /\ \A r \in ReqIds : threads[r] = "alive" => threads'[r] = "alive") =>
          LET begun == Begin(St, "abort")
          IN \A id \in AbortIds, fault \in BOOLEAN :
                 (/\ NamesNothing(begun, id)
                  /\ St' = AbortIdIteration(St, id, fault))
                     => St' = [IdleIteration(St, fault) EXCEPT !.cmd = "abort"]]_vars

\* The last iteration received an abort while a worker ran and a request
\* waited; no worker has ended, no cancel was sent and nothing was aborted.
C15_Witness ==
    /\ cmd = "abort"
    /\ loop = "running"
    /\ Queued # {}
    /\ \E r \in Received : threads[r] = "alive"
    /\ \A r \in Received :
          /\ threads[r] \in {"none", "alive"}
          /\ ~pipes[r]
          /\ requests[r].status \in {"queued", "running"}

CeilDiv(S, T) == (S + T - 1) \div T

\* What a request of S bytes is to publish: n = ceil(S / T) chunks of T
\* bytes, the last one of S mod T bytes when that is not zero, each followed
\* by 'capturing' k/n.
Expected(S, T) ==
    LET n == CeilDiv(S, T)
        size(k) == IF k = n /\ S % T # 0 THEN S % T ELSE T
    IN [j \in 1 .. 2 * n |-> IF j % 2 = 1 THEN DataEvent(size((j + 1) \div 2))
                                          ELSE StatusEvent("capturing", j \div 2, n)]

RECURSIVE SumSizes(_)
SumSizes(out) == IF out = <<>> THEN 0 ELSE Head(out).size + SumSizes(Tail(out))

\* C18: a worker that ended its request with 'finished' has published, after
\* 'established', exactly the chunks Expected gives, each followed by its
\* 'capturing' k/n, then one 'finished'; the chunk sizes sum to the size of
\* the request.
C18_ChunkedDelivery ==
    (worker.pc = "done" /\ worker.out[Len(worker.out)].status = "finished") =>
        /\ worker.out = << StatusEvent("established", 0, 0) >>
                          \o Expected(worker.size_bytes, CHUNKING_THRESHOLD)
                          \o << StatusEvent("finished", 0, 0) >>
        /\ SumSizes(worker.out) = worker.size_bytes
        /\ DataCount(worker.out) = CeilDiv(worker.size_bytes, CHUNKING_THRESHOLD)

\* A request with a partial last chunk after two full ones has finished,
\* and no abort was ever sent.
C18_Witness ==
    /\ worker.pc = "done"
    /\ worker.sent_at = -1
    /\ worker.size_bytes = 2 * CHUNKING_THRESHOLD + 1
    /\ worker.out[Len(worker.out)].status = "finished"

C20_CancelBetweenChunks ==
    /\ [][(worker.pc = "check" /\ worker.abort /\ worker' # worker) =>
             /\ worker'.pc = "done"
             /\ worker'.out = Append(worker.out, StatusEvent("aborted", 0, 0))]_vars
    /\ [][(/\ Len(worker'.out) > Len(worker.out)
           /\ worker'.out[Len(worker'.out)].status = "aborted") =>
             worker.pc = "check" /\ worker.abort]_vars
    /\ [](worker.sent_at # -1 => DataCount(worker.out) <= worker.sent_at + 1)

\* The 'abort' was sent during a pull; the chunk in flight was published and
\* the next check ended the request.
C20_Witness ==
    /\ worker.sent_pc = "pull"
    /\ DataCount(worker.out) = worker.sent_at + 1
    /\ worker.pc = "done"
    /\ worker.out[Len(worker.out)].status = "aborted"

\* C21: a worker that has ended holds no capture buffer and has closed its
\* end of the pipe.
C21_GuaranteedRelease ==
    worker.pc = "done" => (worker.held = 0 /\ worker.closed)

C22_FailureIsLocal ==
    [][\A r \in Received :
          (threads[r] = "alive" /\ threads'[r] = "dead" /\ requests'[r].status = "failed") =>
              /\ \A o \in Received \ {r} :
                    /\ requests'[o] = requests[o]
                    /\ threads'[o] = threads[o]
                    /\ pipes'[o] = pipes[o]
              /\ to_check' = to_check
              /\ checked' = checked
              /\ tap_threads' = tap_threads
              /\ loop' = loop]_vars

\* One request has failed in its worker; the request on the other tap has
\* finished after main reaped the failed one, and main is running.
C22_Witness ==
    /\ loop = "running"
    /\ \E r, o \in Received :
          /\ requests[r].status = "failed"
          /\ threads[r] = "reaped"
          /\ requests[o].status = "finished"
          /\ threads[o] = "dead"
          /\ ~requests[o].observed

\* C25: a request becomes 'running' only in the step that starts its thread,
\* a thread is started only for a request that never had one, and a request
\* that has or had a thread is on neither queue.
C25_RunsAtMostOnce ==
    /\ [][\A r \in 1 .. Len(requests') :
            /\ (requests'[r].status = "running"
                   /\ (r > Len(requests) \/ requests[r].status # "running"))
                  => (threads[r] = "none" /\ threads'[r] = "alive")
            /\ (threads'[r] = "alive" /\ threads[r] # "alive")
                  => (threads[r] = "none" /\ requests'[r].status = "running")
            /\ threads[r] # "none" => threads'[r] # "none"]_vars
    /\ [](\A r \in Received :
            threads[r] # "none" => r \notin Members(to_check) \cup Members(checked))

\* A request that waited on a queue was started after the worker before it
\* was reaped, while another request waits.
C25_Witness ==
    /\ \E r \in Received : threads[r] = "reaped"
    /\ \E r \in Received :
          /\ threads[r] = "alive"
          /\ requests[r].status = "running"
          /\ requests[r].reason # "none"
    /\ Members(to_check) \cup Members(checked) # {}

\* C26: every event of a request was published on a channel that establish
\* opened.
C26_EstablishedBeforeEvents ==
    \A j \in 1 .. Len(capreq.trace) : capreq.trace[j].via = "establish"

\* C27: establish on an established request changes nothing but the record
\* of the call: no socket is opened, nothing is published.
C27_EstablishTwiceIsNoOp ==
    [][(capreq.established = "yes" /\ capreq'.call = "establish"
           /\ capreq'.calls = capreq.calls + 1) =>
          /\ capreq'.opened = capreq.opened
          /\ capreq'.trace = capreq.trace
          /\ capreq'.established = "yes"]_vars

\* C28: add_data on a request that is not established raises and publishes
\* nothing.
C28_AddDataNeedsEstablish ==
    [][(capreq.established # "yes" /\ capreq'.call = "add_data"
           /\ capreq'.calls = capreq.calls + 1) =>
          /\ capreq'.raised
          /\ capreq'.trace = capreq.trace]_vars

\* add_data was called on a request that had been established and ended,
\* and it raised.
C28_Witness ==
    /\ capreq.call = "add_data"
    /\ capreq.raised
    /\ capreq.terminated
    /\ capreq.established = "no"
    /\ capreq.opened >= 2

\* C29: when fail, finish or abort has returned, the request is not
\* established and has no open socket; and until the request is established
\* anew, no call publishes anything for it.
C29_TerminalReleases ==
    /\ []((capreq.call \in {"fail", "finish", "abort"} /\ ~capreq.raised) =>
             /\ capreq.established = "no"
             /\ capreq.status_socket # "open"
             /\ capreq.data_socket # "open")
    /\ [][(capreq.terminated /\ capreq'.call # "establish") =>
             capreq'.trace = capreq.trace]_vars

\* A request that was established and had published data was finished, and
\* a later set_status found its channel closed.
C29_Witness ==
    /\ capreq.terminated
    /\ capreq.last_status \in {"queued", "running"}
    /\ capreq.raised
    /\ \E j \in 1 .. Len(capreq.trace) : capreq.trace[j].kind = "data"
    /\ capreq.trace[Len(capreq.trace)].status = "finished"

\* The requests built with the tap, the points and the configuration of q.
BuiltAlike(q) == {[q EXCEPT !.server = s] : s \in Servers}

\* C30: the requests built with the same tap, sample count and
\* configuration have the same id.
C30_IdOfTapPointsConfig ==
    \A o \in BuiltAlike(capreq) : RequestId(o) = RequestId(capreq)

\* The terminal status events of a trace.
TerminalCount(trace) ==
    Cardinality({j \in 1 .. Len(trace) :
                    trace[j].kind = "status" /\ trace[j].status \in Terminal})

\* C24: a request publishes at most one terminal status event, and a
\* request whose worker and sender have ended has published exactly one.
C24_OneTerminalEvent ==
    /\ TerminalCount(capreq.trace) <= 1
    /\ (photon.pc = "done" /\ photon.sender \in {"none", "done"})
          => TerminalCount(capreq.trace) = 1

\* C31: for all meta configurations a and b, a == b gives what b == a gives,
\* and a == a is True.
C31_CompatibleSymmetricReflexive ==
    compare.pc = "done" =>
        /\ compare.ab = compare.ba
        /\ compare.aa = "True"

\* A step of main's loop: not the end of a worker, not the return of a join.
MainStep ==
    /\ loop = "running"
    /\ vars' # vars
    /\ \A r \in ReqIds : ~(threads[r] = "alive" /\ threads'[r] = "dead")

Started(r) == threads[r] # "none"

Refused(r) ==
    /\ r \in Received
    /\ ~Started(r)
    /\ r \notin Members(to_check) \cup Members(checked)
    /\ requests[r].status \notin Terminal

\* C34: once apply_config has failed, main has left its loop; from the
\* failing iteration on no thread is started, no request becomes 'running'
\* and, after it, no configuration is applied.
C34_FailStop ==
    /\ [](cause = "hardware" => loop \in {"stopped", "raised"})
    /\ [][(cause = "hardware" \/ cause' = "hardware") =>
             /\ \A r \in ReqIds : threads'[r] = "alive" => threads[r] = "alive"
             /\ \A r \in 1 .. Len(requests') :
                    requests'[r].status = "running" =>
                        r \in Received /\ requests[r].status = "running"]_vars
    /\ [][cause = "hardware" => cm' = cm /\ effective' = effective]_vars

\* apply_config failed for a request while another worker was running; that
\* worker has ended since, and the refused request has neither a thread nor
\* 'running'.
C34_Witness ==
    /\ cause = "hardware"
    /\ \E r \in Received : Refused(r) /\ requests[r].status # "running"
    /\ \E o \in Received : threads[o] = "dead"

\* A step of main that received ('capture', data).
CaptureStep == MainStep /\ Len(requests') = Len(requests) + 1

\* C35: in the iteration of its arrival a request is started only if, after
\* the reap, the fresh queue is empty, its tap slot is free and its
\* configuration is compatible with the one required; when the fresh queue
\* is not empty after the reap, the arrival (unless it is rejected for a
\* hash never taught) is appended to the tail of the fresh queue, the head
\* of the fresh queue is the request taken for admission, and the arrival
\* is not started.
C35_ArrivalDoesNotOvertake ==
    [][CaptureStep =>
          LET d == Len(requests')
              req == requests'[d]
              after == Reaped
          IN /\ threads'[d] = "alive" =>
                    /\ after.to_check = <<>>
                    /\ Type(req.tap) \in TapSlots
                    /\ after.tap_threads[Type(req.tap)] = 0
                    /\ Compatible(after.effective, req.cfg)
             /\ (after.to_check # <<>> /\ ~req.rejected) =>
                    /\ to_check' = Tail(after.to_check) \o << d >>
                    /\ threads'[d] # "alive"]_vars

\* C36: whenever main is between two iterations and the stale queue is not
\* empty, some tap slot holds a worker that has not been reaped.
C36_NoLostWakeUp ==
    (loop = "running" /\ checked # <<>>) =>
        \E k \in TapSlots : tap_threads[k] # 0 /\ Unreaped(tap_threads[k])

\* A request waits on the stale queue for a configuration to be released,
\* its own tap slot being free.
C36_Witness ==
    /\ loop = "running"
    /\ \E i \in 1 .. Len(checked) :
          /\ requests[checked[i]].reason = "incompatible"
          /\ Type(requests[checked[i]].tap) \in TapSlots
          /\ tap_threads[Type(requests[checked[i]].tap)] = 0

\* The status of request r, "none" while it has not been received.
StatusOf(r) == IF r \in Received THEN requests[r].status ELSE "none"

\* Main has nothing left to do: it is out of its loop or blocked in a join,
\* or its next iteration without a command changes nothing.
MainIdle ==
    \/ loop # "running"
    \/ LET next == IdleIteration(St, FALSE)
       IN [next EXCEPT !.cmd = cmd, !.cr = cr] = St

\* C37: when main keeps taking its iterations (again and again it has
\* nothing left to do) and apply_config never fails, every request whose
\* 'queued' was published is later 'running' or in a terminal state, and
\* then on neither queue.
C37_QueuedEventuallyServed ==
    ([]<>MainIdle /\ [](cause # "hardware")) =>
        \A r \in ReqIds :
            (StatusOf(r) = "queued")
                ~> (/\ StatusOf(r) \in {"running"} \cup Terminal
                    /\ r \notin Members(to_check) \cup Members(checked))

\* Requests r1 and r2 were submitted in this order for the same tap with the
\* same configuration.
Equals(r1, r2) ==
    /\ r1 \in Received
    /\ r2 \in Received
    /\ r1 < r2
    /\ requests[r1].tap = requests[r2].tap
    /\ requests[r1].cfg = requests[r2].cfg

\* C38: of two requests for the same tap with the same configuration, the
\* later one is not started while the earlier one, not aborted, has not been.
C38_OrderAmongEquals ==
    \A r1, r2 \in ReqIds :
        (Equals(r1, r2) /\ Started(r2) /\ ~Started(r1)) =>
            requests[r1].status = "aborted"

\* In how many places request r is: the positions of the fresh and of the
\* stale queue and the tap slots that hold it.
Places(r) ==
    Cardinality({i \in 1 .. Len(to_check) : to_check[i] = r})
        + Cardinality({i \in 1 .. Len(checked) : checked[i] = r})
        + Cardinality({k \in TapSlots : tap_threads[k] = r})

\* C39: whenever main is between two iterations, every request it has
\* received that has no terminal status is in exactly one place: on the
\* fresh queue, on the stale queue, or in a tap slot.
C39_NeitherLostNorDuplicated ==
    loop = "running" =>
        \A r \in Received :
            requests[r].status \notin Terminal => Places(r) = 1

\* C40: when hardware.bequiet has taken effect on a 'bequiet' command, no
\* capture worker was alive.
C40_QuietAfterAbort ==
    command.pc # "none" => command.pulling = {}
====
